---- MODULE Spec2Model ----
(***************************************************************************)
(* Icon asset composition scripts of outmanster/ostia: pad_icon.py,        *)
(* gen_padded_icon.py, src-tauri/gen_icon.py,                              *)
(* src-tauri/icons/generate_android_icon.py and                            *)
(* src-tauri/icons/fix_foreground_icons.py.                                *)
(*                                                                         *)
(* The pure image functions (padding, scaling, pasting, masking, dominant  *)
(* colour) are operators; SpecPad, SpecCompose and SpecDominant draw their *)
(* inputs in Init and apply them.  Spec runs a script against a file       *)
(* system: the source images, the mipmap directories and the files in      *)
(* them.                                                                   *)
(***************************************************************************)
EXTENDS Integers, Sequences, FiniteSets

VARIABLES
    call,       \* pure-function specifications: the function and its arguments
    ret,        \* pure-function specifications: what the function returned
    files,      \* path -> image file at that path (Absent when there is none)
    dirs,       \* the mipmap directories that exist under the res path
    mip,        \* <<directory, filename>> -> image file in a mipmap directory
    pc,         \* the script being run and where it is
    raised,     \* the exception that ended the run, "none" when none did
    stdout,     \* the kinds of the lines printed, in order
    log         \* the writes into mipmap directories: attempted, and whether done

vars == <<call, ret, files, dirs, mip, pc, raised, stdout, log>>

(***************************************************************************)
(* Bounds of the model.                                                    *)
(***************************************************************************)
MaxDim == 2         \* width and height of the buffers given to pad_image
MaxPixels == 3      \* length of the pixel sequences given to extract_dominant_blue

Max(a, b) == IF a >= b THEN a ELSE b

(***************************************************************************)
(* Pixels are <<r, g, b, a>>.  A raster is [w, h, px] with px a function   *)
(* of <<x, y>>, 0 <= x < w, 0 <= y < h.                                    *)
(***************************************************************************)
Transparent == <<0, 0, 0, 0>>

\* PIL's DIV255 macro (ImagingUtils.h): a / 255 rounded, for 0 <= a <= 255 * 255.
Div255(a) == (((a + 128) \div 256) + (a + 128)) \div 256

\* PIL's BLEND macro, applied by Image.paste to each of the four bands of an
\* RGBA image when a mask is given: in1 is the destination, in2 the source.
Blend(mask, in1, in2) == Div255(in1 * (255 - mask) + in2 * mask)

\* The mask Image.paste applies to band i of an RGBA destination (Pillow 9.1
\* and later, which Image.Resampling needs): a colour band of a destination
\* pixel that is fully transparent takes the source's colour whole, unless
\* the mask is 0; the alpha band, i = 4, is blended by the mask itself.
ChannelMask(mask, i, dstAlpha) ==
    IF i # 4 /\ mask # 0
    THEN 255 - (255 - mask) * (1 - ((255 - dstAlpha) \div 255))
    ELSE mask

BlendPixel(mask, dst, src) ==
    [i \in 1..4 |-> Blend(ChannelMask(mask, i, dst[4]), dst[i], src[i])]

\* Image.new(mode, (w, h), color)
NewImage(w, h, color) ==
    [w |-> w, h |-> h, px |-> [p \in (0..(w - 1)) \X (0..(h - 1)) |-> color]]

\* dest.paste(src, (left, top), src): the source's own alpha band is the mask;
\* the part of the source outside the destination is clipped.
PasteSelf(dest, src, left, top) ==
    [dest EXCEPT !.px =
        [p \in DOMAIN dest.px |->
            LET x == p[1] - left
                y == p[2] - top
            IN  IF x >= 0 /\ x < src.w /\ y >= 0 /\ y < src.h
                THEN BlendPixel(src.px[<<x, y>>][4], dest.px[p], src.px[<<x, y>>])
                ELSE dest.px[p]]]

\* the quotient rounded up instead of truncated
PadNewSizeCeil(width, height, num, den) ==
    (Max(width, height) * den + num - 1) \div num

\* int(max(width, height) / target_ratio), the ratio being num / den.  For the
\* ratios of PadRatios the double quotient truncates to the exact floor.
PadNewSize(width, height, num, den) == (Max(width, height) * den) \div num

\* (outer - inner) // 2
CenterOffset(outer, inner) == (outer - inner) \div 2

\* pad_image, from the decoded buffer to the buffer it saves
PadImage(img, num, den) ==
    LET new_size == PadNewSize(img.w, img.h, num, den)
        new_img == NewImage(new_size, new_size, Transparent)
        left == CenterOffset(new_size, img.w)
        top == CenterOffset(new_size, img.h)
    IN  [fn |-> "pad_image", new_size |-> new_size, left |-> left, top |-> top,
         out |-> PasteSelf(new_img, img, left, top)]

(***************************************************************************)
(* Scaling and composition.  The logos given to the composition functions  *)
(* are flat: [w, h, color], every pixel the same colour.  Lanczos          *)
(* resampling of a flat image is taken to give a flat image of that colour.*)
(***************************************************************************)
Abs(n) == IF n < 0 THEN 0 - n ELSE n

\* int(size * ratio), the ratio being num / den
ScaledSize(size, num, den) == (size * num) \div den

\* round_aspect of Image.thumbnail for the width: of floor and ceiling of
\* s * w / h the one whose ratio to s is nearest w / h (the floor on a tie),
\* and at least 1.
RoundAspectX(s, w, h) ==
    LET lo == (s * w) \div h
        hi == (s * w + h - 1) \div h
    IN  Max(IF Abs(w * s - lo * h) <= Abs(w * s - hi * h) THEN lo ELSE hi, 1)

\* round_aspect of Image.thumbnail for the height: of floor and ceiling of
\* s * h / w the one n with s / n nearest w / h; 0 counts as exact, and the
\* result is at least 1.
RoundAspectY(s, w, h) ==
    LET lo == (s * h) \div w
        hi == (s * h + w - 1) \div w
    IN  Max(IF lo = 0 \/ Abs(w * lo - s * h) * hi <= Abs(w * hi - s * h) * lo
            THEN lo ELSE hi, 1)

\* logo.thumbnail((s, s), LANCZOS): the size of the logo afterwards
Thumbnail(w, h, s) ==
    IF s >= w /\ s >= h THEN <<w, h>>
    ELSE IF h >= w THEN <<RoundAspectX(s, w, h), s>>
    ELSE <<s, RoundAspectY(s, w, h)>>

\* logo.resize((s, s), LANCZOS): the size of the logo afterwards
Resize(w, h, s) == <<s, s>>

\* draw.ellipse((0, 0, size, size), fill=255) on an "L" image filled with 0:
\* 255 in the ellipse inscribed in the box, 0 outside it
EllipseMask(x, y, size) ==
    IF (2 * x - size) * (2 * x - size) + (2 * y - size) * (2 * y - size)
            <= size * size
    THEN 255 ELSE 0

\* canvas.paste(logo, (left, top), logo) on a canvas filled with bg: the
\* canvas pixel at (x, y)
PastedPixel(bg, color, l_w, l_h, left, top, x, y) ==
    IF x >= left /\ x < left + l_w /\ y >= top /\ y < top + l_h
    THEN BlendPixel(color[4], bg, color)
    ELSE bg

\* final.paste(canvas, (0, 0), mask) on a transparent canvas
MaskedPixel(maskValue, pixel) == BlendPixel(maskValue, Transparent, pixel)

TOTAL_SIZE == 512

\* compose_on_bg, from the decoded logo to the canvas it saves: the sizes,
\* the paste position and the saved canvas's pixels at the corner and centre
ComposeOnBg(logo, bg_color, num, den, round_mask) ==
    LET total_size == TOTAL_SIZE
        new_logo_size == ScaledSize(total_size, num, den)
        size == Thumbnail(logo.w, logo.h, new_logo_size)
        l_w == size[1]
        l_h == size[2]
        left == CenterOffset(total_size, l_w)
        top == CenterOffset(total_size, l_h)
        at(x, y) ==
            LET c == PastedPixel(bg_color, logo.color, l_w, l_h, left, top, x, y)
            IN  IF round_mask THEN MaskedPixel(EllipseMask(x, y, total_size), c)
                ELSE c
    IN  [fn |-> "compose_on_bg", total |-> total_size, target |-> new_logo_size,
         l_w |-> l_w, l_h |-> l_h, left |-> left, top |-> top,
         corner |-> at(0, 0), centre |-> at(256, 256)]

(***************************************************************************)
(* Dominant colour.  Strings are tuples of one-character strings.          *)
(***************************************************************************)
HexDigits ==
    <<"0", "1", "2", "3", "4", "5", "6", "7", "8", "9", "a", "b", "c", "d", "e", "f">>

\* '{:02x}'.format(n), 0 <= n <= 255
Hex2(n) == <<HexDigits[(n \div 16) + 1], HexDigits[(n % 16) + 1]>>

\* '#{:02x}{:02x}{:02x}'.format(r, g, b)
FormatHex(c) == <<"#">> \o Hex2(c[1]) \o Hex2(c[2]) \o Hex2(c[3])

\* the default blue returned when no pixel is blue
FallbackHex == <<"#", "0", "0", "8", "5", "f", "f">>

\* the value of a hexadecimal digit
DigitValue(d) == (CHOOSE i \in 1..16 : HexDigits[i] = d) - 1

\* PIL's ImageColor.getrgb on "#rrggbb", as Image.new reads a colour string
\* for an RGBA image: the alpha is 255
ParseHex(str) ==
    <<DigitValue(str[2]) * 16 + DigitValue(str[3]),
      DigitValue(str[4]) * 16 + DigitValue(str[5]),
      DigitValue(str[6]) * 16 + DigitValue(str[7]), 255>>

\* convert('RGB') of an RGBA pixel
ToRGB(p) == <<p[1], p[2], p[3]>>

\* the filter of the list comprehension
IsBlue(p) == p[3] > p[1] /\ p[3] > p[2] /\ p[3] > 100

\* Counter(seq): <<colour, count>> items in the order the colours are first
\* met, built by counting one element after the other
RECURSIVE CounterAdd(_, _, _)
CounterAdd(items, c, i) ==
    IF i > Len(items) THEN Append(items, <<c, 1>>)
    ELSE IF items[i][1] = c THEN [items EXCEPT ![i] = <<c, items[i][2] + 1>>]
    ELSE CounterAdd(items, c, i + 1)

RECURSIVE Counter(_)
Counter(seq) ==
    IF seq = <<>> THEN <<>>
    ELSE CounterAdd(Counter(SubSeq(seq, 1, Len(seq) - 1)), seq[Len(seq)], 1)

\* of the items with the largest count, the last instead of the first
RECURSIVE MaxItemLast(_)
MaxItemLast(items) ==
    IF Len(items) = 1 THEN items[1]
    ELSE LET best == MaxItemLast(SubSeq(items, 1, Len(items) - 1))
         IN  IF items[Len(items)][2] >= best[2] THEN items[Len(items)] ELSE best

\* max(items, key=count), as heapq.nlargest(1, ...) computes it: of the items
\* with the largest count, the first
RECURSIVE MaxItem(_)
MaxItem(items) ==
    IF Len(items) = 1 THEN items[1]
    ELSE LET best == MaxItem(SubSeq(items, 1, Len(items) - 1))
         IN  IF items[Len(items)][2] > best[2] THEN items[Len(items)] ELSE best

\* color_counter.most_common(1)[0][0]
MostCommon(items) == MaxItem(items)[1]

\* extract_dominant_blue on the image's pixels in scan order
ExtractDominantBlue(pixels) ==
    LET rgb == [i \in DOMAIN pixels |-> ToRGB(pixels[i])]
        blue_pixels == SelectSeq(rgb, IsBlue)
    IN  IF blue_pixels = <<>> THEN FallbackHex
        ELSE FormatHex(MostCommon(Counter(blue_pixels)))

(***************************************************************************)
(* The compositions of generate_android_icon.py and fix_foreground_icons.py*)
(***************************************************************************)
CANVAS_SIZE == 1024
LOGO_SCALE == <<13, 20>>            \* 0.65
LOGO_SCALE_FACTOR == <<3, 5>>       \* 0.60

\* getdata() of a flat logo is one colour w * h times over; which colour is
\* the most common does not depend on how often it is repeated
FlatPixels(logo) == <<logo.color>>

\* generate_android_icon, from the decoded logo to the canvas it saves
GenerateAndroidIcon(logo) ==
    LET bg_color == ParseHex(ExtractDominantBlue(FlatPixels(logo)))
        logo_size == ScaledSize(CANVAS_SIZE, LOGO_SCALE[1], LOGO_SCALE[2])
        size == Resize(logo.w, logo.h, logo_size)
        position == CenterOffset(CANVAS_SIZE, logo_size)
        at(x, y) == PastedPixel(bg_color, logo.color, size[1], size[2],
                                position, position, x, y)
    IN  [fn |-> "generate_android_icon", total |-> CANVAS_SIZE,
         target |-> logo_size, l_w |-> size[1], l_h |-> size[2],
         left |-> position, top |-> position,
         corner |-> at(0, 0), centre |-> at(CANVAS_SIZE \div 2, CANVAS_SIZE \div 2)]

\* the body of generate_foreground_icons' loop, from the decoded logo and the
\* tier's size to the canvas it saves
ForegroundIcon(logo, size) ==
    LET target_logo_size ==
            ScaledSize(size, LOGO_SCALE_FACTOR[1], LOGO_SCALE_FACTOR[2])
        resized == Resize(logo.w, logo.h, target_logo_size)
        offset == CenterOffset(size, target_logo_size)
        at(x, y) == PastedPixel(Transparent, logo.color, resized[1], resized[2],
                                offset, offset, x, y)
    IN  [fn |-> "generate_foreground_icons", total |-> size,
         target |-> target_logo_size, l_w |-> resized[1], l_h |-> resized[2],
         left |-> offset, top |-> offset,
         corner |-> at(0, 0), centre |-> at(size \div 2, size \div 2)]

(***************************************************************************)
(* The Android density tiers.                                              *)
(***************************************************************************)
\* MIPMAP_SIZES of fix_foreground_icons.py, in the dictionary's order
MipmapOrder ==
    <<"mipmap-mdpi", "mipmap-hdpi", "mipmap-xhdpi", "mipmap-xxhdpi", "mipmap-xxxhdpi">>

MIPMAP_SIZES ==
    [t \in {MipmapOrder[i] : i \in 1..5} |->
        CASE t = "mipmap-mdpi" -> 108
          [] t = "mipmap-hdpi" -> 162
          [] t = "mipmap-xhdpi" -> 216
          [] t = "mipmap-xxhdpi" -> 324
          [] t = "mipmap-xxxhdpi" -> 432]

Tiers == DOMAIN MIPMAP_SIZES

\* mips of update_android_icons, in the list's order
mips ==
    <<"mipmap-hdpi", "mipmap-mdpi", "mipmap-xhdpi", "mipmap-xxhdpi", "mipmap-xxxhdpi">>

(***************************************************************************)
(* SpecPad: pad_image on every small buffer and ratio.                     *)
(***************************************************************************)
\* 0.6 is pad_image's default, 0.65 what __main__ passes; 1 and 0.5 are exact
\* in binary.
PadRatios == {<<1, 1>>, <<13, 20>>, <<3, 5>>, <<1, 2>>}

\* opaque, half transparent and fully transparent pixels
PadPalette == {<<255, 0, 0, 255>>, <<255, 0, 0, 128>>, <<0, 0, 0, 0>>}

PadBuffers ==
    UNION {[w : {w}, h : {h}, px : [(0..(w - 1)) \X (0..(h - 1)) -> PadPalette]] :
            <<w, h>> \in (1..MaxDim) \X (1..MaxDim)}

Idle == [fn |-> "none"]
Pending == [fn |-> "pending"]
Absent == [w |-> 0, h |-> 0, tag |-> "absent"]
NoFiles == [p \in {} |-> Absent]

ScriptIdle ==
    /\ files = NoFiles
    /\ dirs = {}
    /\ mip = NoFiles
    /\ pc = [script |-> "none", at |-> "idle", i |-> 0]
    /\ raised = "none"
    /\ stdout = <<>>
    /\ log = <<>>

ScriptVars == <<files, dirs, mip, pc, raised, stdout, log>>

InitPad ==
    /\ \E img \in PadBuffers, r \in PadRatios :
            call = [fn |-> "pad_image", img |-> img, num |-> r[1], den |-> r[2]]
    /\ ret = Pending
    /\ ScriptIdle

ApplyPad ==
    /\ call.fn = "pad_image"
    /\ ret = Pending
    /\ ret' = PadImage(call.img, call.num, call.den)
    /\ UNCHANGED <<call, ScriptVars>>

SpecPad == InitPad /\ [][ApplyPad]_vars

PadDone == ret.fn = "pad_image"

\* C2 (as amended): the canvas side is the quotient max(width, height) / r
\* truncated to an integer (its floor), and the buffer is pasted at the floor
\* of half the slack in each direction.
C2_PadSizeIsFloor ==
    PadDone =>
        LET m == Max(call.img.w, call.img.h)
        IN  /\ ret.out.w = ret.new_size /\ ret.out.h = ret.new_size
            /\ ret.new_size * call.num <= m * call.den
            /\ m * call.den < (ret.new_size + 1) * call.num
            /\ 2 * ret.left <= ret.new_size - call.img.w
            /\ ret.new_size - call.img.w <= 2 * ret.left + 1
            /\ 2 * ret.top <= ret.new_size - call.img.h
            /\ ret.new_size - call.img.h <= 2 * ret.top + 1

\* C2 witness: a padded buffer whose quotient is not an integer, so that floor
\* and ceiling differ, and whose slack is odd in one direction.
C2_Witness ==
    /\ PadDone
    /\ (Max(call.img.w, call.img.h) * call.den) % call.num # 0
    /\ (ret.new_size - call.img.w) % 2 = 1

\* C2 as the specification states it: the canvas side is
\* ceil(max(width, height) / r), the offsets the floor of half the slack.
C2_PadSizeIsCeil ==
    PadDone =>
        LET m == Max(call.img.w, call.img.h)
        IN  /\ (ret.new_size - 1) * call.num < m * call.den
            /\ m * call.den <= ret.new_size * call.num
            /\ ret.left = (ret.new_size - call.img.w) \div 2
            /\ ret.top = (ret.new_size - call.img.h) \div 2

\* C1: the output of pad_image is square, the region of the source's size at
\* the centre offset equals the source in all four channels, and every pixel
\* outside it is the fill colour.
C1_PadLossless ==
    PadDone =>
        /\ ret.out.w = ret.out.h
        /\ \A p \in DOMAIN ret.out.px :
              LET x == p[1] - ret.left
                  y == p[2] - ret.top
              IN  IF x >= 0 /\ x < call.img.w /\ y >= 0 /\ y < call.img.h
                  THEN ret.out.px[p] = call.img.px[<<x, y>>]
                  ELSE ret.out.px[p] = Transparent

(***************************************************************************)
(* SpecCompose: the three compositions on flat logos of several sizes.     *)
(***************************************************************************)
\* smaller than every target, around compose_on_bg's targets 281 and 307,
\* and larger than them
LogoSides == {1, 2, 100, 281, 282, 600}

\* opaque, half transparent and fully transparent logos
LogoColors == {<<255, 255, 255, 255>>, <<255, 255, 255, 128>>, <<0, 0, 0, 0>>}

Logos == [w : LogoSides, h : LogoSides, color : LogoColors]

\* bg_blue of update_android_icons, the default of compose_on_bg
BgColors == {<<1, 131, 253, 255>>}

\* 0.55 is what update_android_icons passes, 0.6 the default
ComposeRatios == {<<11, 20>>, <<3, 5>>}

ComposeCalls ==
    [fn : {"compose_on_bg"}, logo : Logos, bg_color : BgColors,
     ratio : ComposeRatios, round_mask : BOOLEAN]
    \cup [fn : {"generate_android_icon"}, logo : Logos]
    \cup [fn : {"generate_foreground_icons"}, logo : Logos, tier : Tiers]

InitCompose ==
    /\ call \in ComposeCalls
    /\ ret = Pending
    /\ ScriptIdle

ApplyComposeOnBg ==
    /\ call.fn = "compose_on_bg"
    /\ ret = Pending
    /\ ret' = ComposeOnBg(call.logo, call.bg_color, call.ratio[1], call.ratio[2],
                          call.round_mask)
    /\ UNCHANGED <<call, ScriptVars>>

ApplyGenerateAndroidIcon ==
    /\ call.fn = "generate_android_icon"
    /\ ret = Pending
    /\ ret' = GenerateAndroidIcon(call.logo)
    /\ UNCHANGED <<call, ScriptVars>>

ApplyForegroundIcon ==
    /\ call.fn = "generate_foreground_icons"
    /\ ret = Pending
    /\ ret' = ForegroundIcon(call.logo, MIPMAP_SIZES[call.tier])
    /\ UNCHANGED <<call, ScriptVars>>

NextCompose == ApplyComposeOnBg \/ ApplyGenerateAndroidIcon \/ ApplyForegroundIcon

SpecCompose == InitCompose /\ [][NextCompose]_vars

ComposeDone ==
    ret.fn \in {"compose_on_bg", "generate_android_icon", "generate_foreground_icons"}

\* C3: in every composition the foreground is scaled keeping its aspect ratio
\* so that its longer side is int(canvasSize * targetRatio), and it is never
\* upscaled: a source that fits in the target keeps its size.
C3_ShrinkOnlyAspect ==
    ComposeDone =>
        LET w == call.logo.w
            h == call.logo.h
        IN  /\ ret.l_w <= w /\ ret.l_h <= h
            /\ IF Max(w, h) <= ret.target
               THEN ret.l_w = w /\ ret.l_h = h
               ELSE /\ Max(ret.l_w, ret.l_h) = ret.target
                    /\ Abs(ret.l_w * h - ret.l_h * w) <= Max(w, h)

\* C4: with the circular mask on the 512 canvas and an opaque background,
\* the saved pixel at (0, 0) has alpha 0 and the one at (256, 256) alpha 255.
C4_RoundCornerAndCentre ==
    (ret.fn = "compose_on_bg" /\ call.round_mask /\ call.bg_color[4] = 255) =>
        /\ ret.total = 512
        /\ ret.corner[4] = 0
        /\ ret.centre[4] = 255

(***************************************************************************)
(* SpecDominant: extract_dominant_blue on every short pixel sequence.      *)
(***************************************************************************)
\* pure blue; the blue whose hex is the fallback's; pure blue, transparent;
\* red; a blue too dark to pass (blue = 100)
DominantPalette ==
    {<<0, 0, 255, 255>>, <<0, 133, 255, 255>>, <<0, 0, 255, 0>>,
     <<255, 0, 0, 255>>, <<0, 0, 100, 255>>}

PixelSeqs == UNION {[1..n -> DominantPalette] : n \in 1..MaxPixels}

InitDominant ==
    /\ \E pixels \in PixelSeqs : call = [fn |-> "extract_dominant_blue", pixels |-> pixels]
    /\ ret = Pending
    /\ ScriptIdle

ApplyDominant ==
    /\ call.fn = "extract_dominant_blue"
    /\ ret = Pending
    /\ ret' = [fn |-> "extract_dominant_blue", value |-> ExtractDominantBlue(call.pixels)]
    /\ UNCHANGED <<call, ScriptVars>>

SpecDominant == InitDominant /\ [][ApplyDominant]_vars

DominantDone == ret.fn = "extract_dominant_blue"

\* the positions of the pixels that pass the predicate, and of those of colour c
BluePositions == {i \in DOMAIN call.pixels : IsBlue(ToRGB(call.pixels[i]))}
PositionsOf(c) == {i \in BluePositions : ToRGB(call.pixels[i]) = c}
FirstOf(c) == CHOOSE i \in PositionsOf(c) : \A j \in PositionsOf(c) : i <= j

\* C5: extract_dominant_blue returns the colour with the highest count among
\* the pixels passing the predicate, on a tie the one met first in scan
\* order, and the fallback #0085ff when no pixel passes; it always returns.
C5_DominantIsFirstMostFrequent ==
    DominantDone =>
        IF BluePositions = {} THEN ret.value = FallbackHex
        ELSE \E i \in BluePositions :
                LET c == ToRGB(call.pixels[i])
                IN  /\ ret.value = FormatHex(c)
                    /\ <<ParseHex(ret.value)[1], ParseHex(ret.value)[2],
                         ParseHex(ret.value)[3]>> = c
                    /\ \A j \in BluePositions :
                          LET d == ToRGB(call.pixels[j])
                          IN  \/ Cardinality(PositionsOf(d)) < Cardinality(PositionsOf(c))
                              \/ /\ Cardinality(PositionsOf(d)) = Cardinality(PositionsOf(c))
                                 /\ FirstOf(c) <= FirstOf(d)

\* C5 witness: two colours share the highest count and the one met second
\* in scan order is not the one returned.
C5_Witness ==
    /\ DominantDone
    /\ \E i, j \in BluePositions :
          /\ i < j
          /\ ToRGB(call.pixels[i]) # ToRGB(call.pixels[j])
          /\ FirstOf(ToRGB(call.pixels[i])) = i
          /\ Cardinality(PositionsOf(ToRGB(call.pixels[i])))
                = Cardinality(PositionsOf(ToRGB(call.pixels[j])))
          /\ \A k \in BluePositions :
                Cardinality(PositionsOf(ToRGB(call.pixels[k])))
                    <= Cardinality(PositionsOf(ToRGB(call.pixels[i])))
          /\ ret.value = FormatHex(ToRGB(call.pixels[i]))

(***************************************************************************)
(* Spec: one run of one script against the file system.  Paths are the     *)
(* ones the scripts name, relative to the directory each is started in.    *)
(* A save or a copy may fail (OSError); no script catches an exception, so *)
(* a raised one ends the run.                                              *)
(***************************************************************************)
Scripts ==
    {"pad_icon", "gen_padded_icon", "gen_icon", "generate_android_icon",
     "fix_foreground_icons"}

SourcePaths == {"new_logo_transparent.png", "new_logo.png", "icons/icon.png", "icon.png"}

OutputPaths ==
    {"src-tauri/icons/icon_padded.png", "temp_android_foreground.png",
     "temp_android_legacy.png", "temp_android_round.png", "new_logo_padded.png",
     "icons/icon_ios_blue.png", "icon_android.png"}

\* the three files update_android_icons copies into a mipmap directory, in order
LauncherFiles == <<"ic_launcher_foreground.png", "ic_launcher.png", "ic_launcher_round.png">>

\* the temporary compositions they are copied from, in the same order
TempFiles ==
    <<"temp_android_foreground.png", "temp_android_legacy.png", "temp_android_round.png">>

RoleFiles == {LauncherFiles[i] : i \in 1..3}

\* the sizes a source image may have
SourceSizes == {<<100, 100>>, <<600, 300>>}

Image(w, h, tag) == [w |-> w, h |-> h, tag |-> tag]

\* a launcher icon left in a mipmap directory by an earlier build
OldIcon == Image(48, 48, "old")

At(label, i) == [pc EXCEPT !.at = label, !.i = i]

Raise(exception) ==
    /\ raised' = exception
    /\ pc' = At("done", pc.i)

InitScripts ==
    /\ call = Idle
    /\ ret = Idle
    /\ \E present \in SUBSET SourcePaths, size \in SourceSizes :
            files = [p \in SourcePaths \cup OutputPaths |->
                        IF p \in present THEN Image(size[1], size[2], "source")
                        ELSE Absent]
    /\ dirs \in SUBSET Tiers
    /\ \E old \in BOOLEAN :
            mip = [t \in Tiers \X RoleFiles |->
                        IF old /\ t[1] \in dirs THEN OldIcon ELSE Absent]
    /\ \E script \in Scripts : pc = [script |-> script, at |-> "start", i |-> 0]
    /\ raised = "none"
    /\ stdout = <<>>
    /\ log = <<>>

\* pad_icon.py __main__, its call of pad_image
PadIconMain ==
    /\ pc.script = "pad_icon" /\ pc.at = "start"
    /\ UNCHANGED <<call, ret, dirs, mip, log>>
    /\ LET img == files["new_logo_transparent.png"]
           new_size == PadNewSize(img.w, img.h, 13, 20)
       IN  IF img = Absent
           THEN Raise("FileNotFoundError") /\ UNCHANGED <<files, stdout>>
           ELSE \E saved \in BOOLEAN :
                    IF saved
                    THEN /\ files' = [files EXCEPT !["src-tauri/icons/icon_padded.png"] =
                                        Image(new_size, new_size, "pad_image")]
                         /\ stdout' = Append(stdout, "Padded icon saved")
                         /\ pc' = At("update_android_icons", 0)
                         /\ UNCHANGED raised
                    ELSE Raise("OSError") /\ UNCHANGED <<files, stdout>>

\* update_android_icons up to its loop: the three calls of compose_on_bg, of
\* which the first `saved` save their canvas
UpdateAndroidIconsCompose ==
    /\ pc.script = "pad_icon" /\ pc.at = "update_android_icons"
    /\ UNCHANGED <<call, ret, dirs, mip, log>>
    /\ IF files["new_logo.png"] = Absent
       THEN Raise("FileNotFoundError") /\ UNCHANGED <<files, stdout>>
       ELSE \E saved \in 0..3 :
                /\ files' = [p \in DOMAIN files |->
                                IF \E k \in 1..saved : TempFiles[k] = p
                                THEN Image(TOTAL_SIZE, TOTAL_SIZE, "compose_on_bg")
                                ELSE files[p]]
                /\ stdout' = stdout \o [k \in 1..saved |-> "Composed icon saved"]
                /\ IF saved = 3
                   THEN pc' = At("mips", 1) /\ UNCHANGED raised
                   ELSE Raise("OSError")

\* one round of update_android_icons' loop over mips: the directory is
\* skipped when it does not exist; else the first `copied` copies are made
UpdateAndroidIconsMip ==
    /\ pc.script = "pad_icon" /\ pc.at = "mips"
    /\ UNCHANGED <<call, ret, dirs, files>>
    /\ LET mip_dir == mips[pc.i]
           next == IF pc.i = Len(mips) THEN At("done", pc.i) ELSE At("mips", pc.i + 1)
       IN  IF mip_dir \in dirs
           THEN \E copied \in 0..3 :
                    /\ mip' = [t \in DOMAIN mip |->
                                IF \E k \in 1..copied : t = <<mip_dir, LauncherFiles[k]>>
                                THEN files[TempFiles[CHOOSE k \in 1..3 : LauncherFiles[k] = t[2]]]
                                ELSE mip[t]]
                    /\ log' = log \o
                            [k \in 1..(IF copied = 3 THEN 3 ELSE copied + 1) |->
                                [tier |-> mip_dir, file |-> LauncherFiles[k],
                                 w |-> files[TempFiles[k]].w, h |-> files[TempFiles[k]].h,
                                 ok |-> k <= copied]]
                    /\ IF copied = 3
                       THEN /\ stdout' = Append(stdout, "Updated")
                            /\ pc' = next
                            /\ UNCHANGED raised
                       ELSE Raise("OSError") /\ UNCHANGED stdout
           ELSE pc' = next /\ UNCHANGED <<mip, log, stdout, raised>>

\* generate_foreground_icons up to its loop
FixForegroundStart ==
    /\ pc.script = "fix_foreground_icons" /\ pc.at = "start"
    /\ UNCHANGED <<call, ret, dirs, mip, files, log, raised>>
    /\ IF files["icon.png"] = Absent
       THEN /\ stdout' = Append(stdout, "Error: not found")
            /\ pc' = At("done", 0)
       ELSE /\ stdout' = Append(stdout, "Loaded source logo")
            /\ pc' = At("tiers", 1)

\* one round of generate_foreground_icons' loop over MIPMAP_SIZES
FixForegroundTier ==
    /\ pc.script = "fix_foreground_icons" /\ pc.at = "tiers"
    /\ UNCHANGED <<call, ret, files>>
    /\ LET folder_name == MipmapOrder[pc.i]
           size == MIPMAP_SIZES[folder_name]
           target == <<folder_name, "ic_launcher_foreground.png">>
           created == IF folder_name \in dirs THEN <<>> ELSE <<"Created directory">>
       IN  /\ dirs' = dirs \cup {folder_name}
           /\ \E saved \in BOOLEAN :
                /\ log' = Append(log, [tier |-> folder_name, file |-> target[2],
                                       w |-> size, h |-> size, ok |-> saved])
                /\ IF saved
                   THEN /\ mip' = [mip EXCEPT ![target] =
                                    Image(size, size, "generate_foreground_icons")]
                        /\ stdout' = stdout \o created \o <<"Generated">>
                        /\ pc' = IF pc.i = Len(MipmapOrder) THEN At("done", pc.i)
                                 ELSE At("tiers", pc.i + 1)
                        /\ UNCHANGED raised
                   ELSE /\ stdout' = stdout \o created
                        /\ Raise("OSError")
                        /\ UNCHANGED mip

\* generate_android_icon.py
GenerateAndroidIconRun ==
    /\ pc.script = "generate_android_icon" /\ pc.at = "start"
    /\ UNCHANGED <<call, ret, dirs, mip, log>>
    /\ IF files["icon.png"] = Absent
       THEN Raise("FileNotFoundError") /\ UNCHANGED <<files, stdout>>
       ELSE \E saved \in BOOLEAN :
                IF saved
                THEN /\ files' = [files EXCEPT !["icon_android.png"] =
                                    Image(CANVAS_SIZE, CANVAS_SIZE, "generate_android_icon")]
                     /\ stdout' = stdout \o
                            <<"Extracted background color", "Android icon generated">>
                     /\ pc' = At("done", 0)
                     /\ UNCHANGED raised
                ELSE /\ stdout' = Append(stdout, "Extracted background color")
                     /\ Raise("OSError")
                     /\ UNCHANGED files

\* generate_icon of gen_padded_icon.py
GenPaddedIconRun ==
    /\ pc.script = "gen_padded_icon" /\ pc.at = "start"
    /\ UNCHANGED <<call, ret, dirs, mip, log>>
    /\ LET missing == files["new_logo_transparent.png"] = Absent
           error == IF missing THEN <<"Error: not found">> ELSE <<>>
           INPUT_PATH == IF missing THEN "icons/icon.png" ELSE "new_logo_transparent.png"
           icon == files[INPUT_PATH]
       IN  IF icon = Absent
           THEN /\ stdout' = stdout \o error
                /\ pc' = At("done", 0)
                /\ UNCHANGED <<files, raised>>
           ELSE \E saved \in BOOLEAN :
                    IF saved
                    THEN /\ files' = [files EXCEPT !["new_logo_padded.png"] =
                                        Image(icon.w, icon.h, "generate_icon")]
                         /\ stdout' = stdout \o error \o <<"Processing", "Generated">>
                         /\ pc' = At("done", 0)
                         /\ UNCHANGED raised
                    ELSE /\ stdout' = stdout \o error \o <<"Processing">>
                         /\ Raise("OSError")
                         /\ UNCHANGED files

\* generate_icon of src-tauri/gen_icon.py
GenIconRun ==
    /\ pc.script = "gen_icon" /\ pc.at = "start"
    /\ UNCHANGED <<call, ret, dirs, mip, log>>
    /\ LET icon == files["icons/icon.png"]
       IN  IF icon = Absent
           THEN /\ stdout' = Append(stdout, "Error: not found")
                /\ pc' = At("done", 0)
                /\ UNCHANGED <<files, raised>>
           ELSE \E saved \in BOOLEAN :
                    IF saved
                    THEN /\ files' = [files EXCEPT !["icons/icon_ios_blue.png"] =
                                        Image(icon.w, icon.h, "generate_icon")]
                         /\ stdout' = Append(stdout, "Generated")
                         /\ pc' = At("done", 0)
                         /\ UNCHANGED raised
                    ELSE Raise("OSError") /\ UNCHANGED <<files, stdout>>

Init == InitScripts

Next ==
    \/ PadIconMain
    \/ UpdateAndroidIconsCompose
    \/ UpdateAndroidIconsMip
    \/ FixForegroundStart
    \/ FixForegroundTier
    \/ GenerateAndroidIconRun
    \/ GenPaddedIconRun
    \/ GenIconRun

Spec == Init /\ [][Next]_vars

(***************************************************************************)
(* Properties of a run.                                                    *)
(***************************************************************************)
Done == pc.at = "done"

\* the scripts that write into the mipmap directories
ExportScripts == {"pad_icon", "fix_foreground_icons"}

\* the image a script opens first
SourceOf(script) ==
    CASE script = "pad_icon" -> "new_logo_transparent.png"
      [] script = "gen_padded_icon" -> "new_logo_transparent.png"
      [] script = "gen_icon" -> "icons/icon.png"
      [] script = "generate_android_icon" -> "icon.png"
      [] script = "fix_foreground_icons" -> "icon.png"

\* the launcher files a script writes into each mipmap directory
ExportedFiles(script) ==
    IF script = "pad_icon" THEN RoleFiles ELSE {"ic_launcher_foreground.png"}

Written == {i \in DOMAIN log : log[i].ok}
Target(i) == <<log[i].tier, log[i].file>>

\* the run wrote into the mipmap directories and ended without an exception
Exported ==
    /\ Done
    /\ raised = "none"
    /\ pc.script \in ExportScripts
    /\ files[SourceOf(pc.script)] # Absent

\* C6: an export over the five tiers and the three roles emits exactly 15
\* targets, one for each pair of a tier and a role, no two of them the same,
\* whatever directories existed before the run.
C6_FifteenTargets ==
    (Exported /\ pc.script = "pad_icon") =>
        /\ Cardinality(Written) = 15
        /\ {Target(i) : i \in Written} = Tiers \X RoleFiles
        /\ \A i, j \in Written : Target(i) = Target(j) => i = j

\* C7: every image written into a tier's directory has the width and height
\* of the tier's size in the density table.
C7_TierSized ==
    \A i \in Written :
        /\ log[i].w = MIPMAP_SIZES[log[i].tier]
        /\ log[i].h = MIPMAP_SIZES[log[i].tier]

\* C8: a tier's directory exists before its files are written, being created
\* when it did not exist; and whether or not it existed, the tier's files are
\* written, replacing what was there.
C8_DirectoriesCreatedAndFilesWritten ==
    /\ \A i \in DOMAIN log : log[i].tier \in dirs
    /\ Exported =>
          \A t \in Tiers :
              /\ t \in dirs
              /\ \A f \in ExportedFiles(pc.script) :
                    /\ mip[<<t, f>>] # Absent
                    /\ mip[<<t, f>>] # OldIcon

\* C9: when the write of one target fails, every other target of the run is
\* still attempted (for pad_icon, those of the directories that exist), and
\* what was written stays written.
C9_FailureIsPerTarget ==
    (Done /\ pc.script \in ExportScripts /\ \E i \in DOMAIN log : ~log[i].ok) =>
        /\ \A t \in (IF pc.script = "pad_icon" THEN dirs ELSE Tiers) :
              \A f \in ExportedFiles(pc.script) :
                  \E i \in DOMAIN log : Target(i) = <<t, f>>
        /\ \A i \in Written :
              /\ mip[Target(i)].w = log[i].w
              /\ mip[Target(i)].tag \notin {"absent", "old"}

\* C10: when a script's source image is absent, the run prints an error and
\* returns without an exception and without writing any file.
C10_MissingSourceLogsAndReturns ==
    (Done /\ files[SourceOf(pc.script)] = Absent) =>
        /\ raised = "none"
        /\ \E i \in DOMAIN stdout : stdout[i] = "Error: not found"
        /\ \A p \in OutputPaths : files[p] = Absent
        /\ log = <<>>

====
